---- MODULE Spec2Model ----
(***************************************************************************)
(* Model of computer_use_demo/token_tracker.py: the PRICING table, the     *)
(* TokenUsage record with calculate_cost, and TokenTracker with its        *)
(* construction, add_usage, _write_to_file and get_session_stats, for      *)
(* tracker instances that share one log path.                              *)
(*                                                                         *)
(* Money is exact integer arithmetic: a rate r USD per 1M tokens is kept   *)
(* as 10*r, so a cost c stands for c * 1e-7 USD and                        *)
(* (tokens / 1_000_000) * rate is tokens * (10*rate).  Floating-point      *)
(* rounding is outside the model.                                          *)
(* Time is an integer count of ticks, TicksPerSec ticks to the second;     *)
(* every handler reads the clock once.                                     *)
(***************************************************************************)
EXTENDS Integers, Sequences, FiniteSets, TLC

\* clock:   the wall clock, in ticks
\* tracker: the TokenTracker objects, by name
\* file:    the contents of the log path they share
\* last:    the most recent call and its outcome
\* usage:   the TokenUsage object of the most recent add_usage or calculate_cost
\* loaded:  history: the records each tracker's construction read from the file
\* added:   history: each add_usage call of a tracker, its record as the call
\*          left it and what the call raised
VARIABLES clock, tracker, file, last, usage, loaded, added

vars == <<clock, tracker, file, last, usage, loaded, added>>

\* ------------------------------------------------------------------ bounds

\* add_usage calls over all trackers
MaxAdds == 2
\* Tick steps that may pass in the main specification
MaxTick == 1
\* clock resolution: ticks per second
TicksPerSec == 2
\* last clock reading, in ticks, of the duration specification
MaxClock == 15000

Trackers == {"A", "B"}

\* ----------------------------------------------------------- pricing table

PRICING ==
       "claude-3-5-sonnet-20240620" :> [input |-> 30, output |-> 150, cached_input |-> 3]
    @@ "anthropic.claude-3-5-sonnet-20240620:0" :> [input |-> 30, output |-> 150]
    @@ "claude-3-5-sonnet@20240620" :> [input |-> 30, output |-> 150]
    @@ "claude-3-5-sonnet-20241022-v2" :> [input |-> 30, output |-> 150, cached_input |-> 3]
    @@ "anthropic.claude-3-5-sonnet-20241022-v2:0" :> [input |-> 30, output |-> 150]
    @@ "claude-3-5-sonnet-v2@20241022" :> [input |-> 30, output |-> 150]
    @@ "claude-3-7-sonnet-20250219" :> [input |-> 50, output |-> 250, cached_input |-> 5]
    @@ "default" :> [input |-> 50, output |-> 250, cached_input |-> 5]

\* model ids that are no key of PRICING
UnknownModels == {"unknown-model-xyz", "gpt-x"}

\* ------------------------------------------------------------- TokenUsage

TokenUsage(ts, m, i, o, c, t, cost) ==
    [timestamp |-> ts, model |-> m, input_tokens |-> i, output_tokens |-> o,
     cached_input_tokens |-> c, thinking_tokens |-> t, cost_usd |-> cost]

\* pricing, were an unknown model to get the first schedule of the table
pricing_first_entry(rec) ==
    IF rec.model \in DOMAIN PRICING THEN PRICING[rec.model]
    ELSE PRICING["claude-3-5-sonnet-20240620"]

\* the schedule calculate_cost picks (lines 49-52)
pricing(rec) ==
    IF rec.model \in DOMAIN PRICING THEN PRICING[rec.model] ELSE PRICING["default"]

\* cost_of, were thinking tokens billed at the output rate
cost_of_bills_thinking(rec) ==
    LET p == pricing(rec)
        input_cost == rec.input_tokens * p.input
        output_cost == (rec.output_tokens + rec.thinking_tokens) * p.output
        cached_cost == IF "cached_input" \in DOMAIN p /\ rec.cached_input_tokens > 0
                       THEN rec.cached_input_tokens * p.cached_input
                       ELSE 0
    IN  input_cost + output_cost + cached_cost

\* the value calculate_cost stores and returns (lines 54-61)
cost_of(rec) ==
    LET p == pricing(rec)
        input_cost == rec.input_tokens * p.input
        output_cost == rec.output_tokens * p.output
        cached_cost == IF "cached_input" \in DOMAIN p /\ rec.cached_input_tokens > 0
                       THEN rec.cached_input_tokens * p.cached_input
                       ELSE 0
    IN  input_cost + output_cost + cached_cost

\* the record after calculate_cost has run on it
calculate_cost(rec) == [rec EXCEPT !.cost_usd = cost_of(rec)]

\* ------------------------------------------------------------ time, text

\* datetime.now().strftime("%Y%m%d_%H%M%S") (line 71): the time cut to whole seconds
strftime_seconds(now) == now \div TicksPerSec

DigitChars == <<"0", "1", "2", "3", "4", "5", "6", "7", "8", "9">>

\* decimal digits of n >= 0, as a sequence of characters
RECURSIVE Decimal(_)
Decimal(n) ==
    IF n < 10 THEN <<DigitChars[n + 1]>>
    ELSE Decimal(n \div 10) \o <<DigitChars[(n % 10) + 1]>>

\* the format spec {n:02} (line 128): zero-padded to at least two characters
Pad02(n) == IF Len(Decimal(n)) < 2 THEN <<"0">> \o Decimal(n) ELSE Decimal(n)

\* format_duration, were the seconds rounded to the nearest instead of cut
format_duration_rounded(duration_ticks) ==
    LET whole == (2 * duration_ticks + TicksPerSec) \div (2 * TicksPerSec)
        hours == whole \div 3600
        remainder == whole % 3600
        minutes == remainder \div 60
        seconds == remainder % 60
    IN  Pad02(hours) \o <<":">> \o Pad02(minutes) \o <<":">> \o Pad02(seconds)

\* lines 126-128, for a duration in ticks: int() of the seconds, two divmods, HH:MM:SS
format_duration(duration_ticks) ==
    LET whole == duration_ticks \div TicksPerSec
        hours == whole \div 3600
        remainder == whole % 3600
        minutes == remainder \div 60
        seconds == remainder % 60
    IN  Pad02(hours) \o <<":">> \o Pad02(minutes) \o <<":">> \o Pad02(seconds)

\* ------------------------------------------------------------ TokenTracker

\* sum(rec.<field> for rec in records), lines 114-118
RECURSIVE SumField(_, _)
SumField(records, field) ==
    IF records = <<>> THEN 0
    ELSE SumField(SubSeq(records, 1, Len(records) - 1), field)
         + records[Len(records)][field]

\* get_session_stats (lines 112-141) of tracker object tr at clock reading now
get_session_stats(tr, now) ==
    [total_input_tokens |-> SumField(tr.usage_records, "input_tokens"),
     total_output_tokens |-> SumField(tr.usage_records, "output_tokens"),
     total_cached_input_tokens |-> SumField(tr.usage_records, "cached_input_tokens"),
     total_thinking_tokens |-> SumField(tr.usage_records, "thinking_tokens"),
     total_requests |-> Len(tr.usage_records),
     total_cost_usd |-> SumField(tr.usage_records, "cost_usd"),
     session_start_time |-> tr.session_start_time,
     current_time |-> now,
     session_duration_seconds |-> now - tr.session_start_time,
     session_duration |-> format_duration(now - tr.session_start_time)]

NoStats ==
    [total_input_tokens |-> 0, total_output_tokens |-> 0,
     total_cached_input_tokens |-> 0, total_thinking_tokens |-> 0,
     total_requests |-> 0, total_cost_usd |-> 0, session_start_time |-> 0,
     current_time |-> 0, session_duration_seconds |-> 0, session_duration |-> <<>>]

\* contents of the log path.  kind: "absent" (no file), "corrupt" (not JSON:
\* garbage or a truncated write), "nondict" (JSON, but no object), "object"
FileOf(kind, has_records, sid, updated, stats, records) ==
    [kind |-> kind, has_records |-> has_records, session_id |-> sid,
     last_updated |-> updated, session_stats |-> stats, records |-> records]

AbsentFile == FileOf("absent", FALSE, 0, 0, NoStats, <<>>)
CorruptFile == FileOf("corrupt", FALSE, 0, 0, NoStats, <<>>)
NonDictFile == FileOf("nondict", FALSE, 0, 0, NoStats, <<>>)
\* a JSON object without a "records" key, such as {}
EmptyObjectFile == FileOf("object", FALSE, 0, 0, NoStats, <<>>)

\* snapshot, were the file to hold the aggregates alone
snapshot_without_records(tr, now) ==
    FileOf("object", FALSE, tr.session_id, now, get_session_stats(tr, now), <<>>)

\* the object _write_to_file dumps (lines 100-107); asdict and json keep
\* every field of every record
snapshot(tr, now) ==
    FileOf("object", TRUE, tr.session_id, now, get_session_stats(tr, now),
           tr.usage_records)

\* load_existing_records, were it to start every tracker empty
load_existing_records_fresh(f) ==
    [raised |-> IF f.kind = "nondict" THEN "AttributeError" ELSE "none",
     records |-> <<>>]

\* _load_existing_records up to the mkdir (lines 77-86): what it raises and
\* the usage_records it leaves
load_existing_records(f) ==
    CASE f.kind = "absent" -> [raised |-> "none", records |-> <<>>]
      [] f.kind = "corrupt" -> [raised |-> "none", records |-> <<>>]
      [] f.kind = "nondict" -> [raised |-> "AttributeError", records |-> <<>>]
      [] OTHER -> [raised |-> "none",
                   records |-> IF f.has_records THEN f.records ELSE <<>>]

Uninitialized ==
    [state |-> "uninit", session_id |-> 0, session_start_time |-> 0,
     usage_records |-> <<>>]

\* the tracker object __init__ leaves (lines 69-73)
new_tracker(now, records) ==
    [state |-> "active", session_id |-> strftime_seconds(now),
     session_start_time |-> now, usage_records |-> records]

\* the most recent call: its tracker, what it raised and what it returned
Call(op, t, raised, ret) == [op |-> op, t |-> t, raised |-> raised, ret |-> ret]

None == "None"

NoUsage == TokenUsage("", "", 0, 0, 0, 0, 0)

\* usage records the callers of the main specification build
Timestamps == {"ts"}
MainUsages ==
    UNION {{TokenUsage(ts, "claude-3-5-sonnet-20240620", 500000, 1000000, 1000000, 2000, cost),
            TokenUsage(ts, "anthropic.claude-3-5-sonnet-20240620:0", 500000, 0, 1000000, 0, cost),
            TokenUsage(ts, "unknown-model-xyz", 2000000, 0, 1000000, 0, cost)} :
           ts \in Timestamps, cost \in {0, 99}}

WriteOutcomes == {"ok", "open_fails", "dump_fails"}

Init ==
    /\ clock = 0
    /\ tracker = [t \in Trackers |-> Uninitialized]
    /\ file \in {AbsentFile, CorruptFile, NonDictFile, EmptyObjectFile}
    /\ last = Call("none", "A", "none", None)
    /\ usage = NoUsage
    /\ loaded = [t \in Trackers |-> <<>>]
    /\ added = [t \in Trackers |-> <<>>]

\* TokenTracker(log_path) on the shared path (lines 68-89)
Construct(t, mkdir_ok) ==
    /\ tracker[t].state = "uninit"
    /\ LET ld == load_existing_records(file)
           raised == IF ld.raised # "none" THEN ld.raised
                     ELSE IF ~mkdir_ok THEN "OSError" ELSE "none"
       IN  /\ last' = Call("init", t, raised, None)
           /\ IF raised = "none"
              THEN /\ tracker' = [tracker EXCEPT ![t] = new_tracker(clock, ld.records)]
                   /\ loaded' = [loaded EXCEPT ![t] = ld.records]
              ELSE UNCHANGED <<tracker, loaded>>
    /\ UNCHANGED <<clock, file, usage, added>>

\* write_to_file, were the new record appended to the records already in the file
write_to_file_merging(f, tr, now, outcome) ==
    CASE outcome = "ok" ->
            snapshot([tr EXCEPT !.usage_records =
                         f.records \o <<tr.usage_records[Len(tr.usage_records)]>>], now)
      [] outcome = "dump_fails" -> CorruptFile
      [] OTHER -> f

\* write_to_file, were the snapshot taken before the new record is appended
write_to_file_before_append(f, tr, now, outcome) ==
    CASE outcome = "ok" ->
            snapshot([tr EXCEPT !.usage_records = SubSeq(@, 1, Len(@) - 1)], now)
      [] outcome = "dump_fails" -> CorruptFile
      [] OTHER -> f

\* the file after _write_to_file's open and dump (lines 109-110)
write_to_file(f, tr, now, outcome) ==
    CASE outcome = "ok" -> snapshot(tr, now)
      [] outcome = "dump_fails" -> CorruptFile
      [] OTHER -> f

\* fold, were add_usage to skip calculate_cost
fold_without_cost(records, u) == Append(records, u)

\* fold, were the new record to replace the list
fold_replaces(records, u) == <<calculate_cost(u)>>

\* usage_records after add_usage's calculate_cost and append (lines 93-94)
fold(records, u) == Append(records, calculate_cost(u))

\* add_usage calls made so far
TotalAdds == Len(added["A"]) + Len(added["B"])

\* AddUsage, were a failed write to take the record back out of memory
AddUsage_rollback(t, u, outcome) ==
    /\ tracker[t].state = "active"
    /\ TotalAdds < MaxAdds
    /\ LET tr == [tracker[t] EXCEPT !.usage_records = fold(@, u)]
       IN  /\ tracker' = IF outcome = "ok" THEN [tracker EXCEPT ![t] = tr] ELSE tracker
           /\ file' = write_to_file(file, tr, clock, outcome)
    /\ usage' = calculate_cost(u)
    /\ last' = Call("add_usage", t, IF outcome = "ok" THEN "none" ELSE "OSError", None)
    /\ added' = [added EXCEPT ![t] = Append(@, [usage |-> usage', raised |-> last'.raised])]
    /\ UNCHANGED <<clock, loaded>>

\* tracker.add_usage(u) (lines 91-95), the write ending as outcome
AddUsage(t, u, outcome) ==
    /\ tracker[t].state = "active"
    /\ TotalAdds < MaxAdds
    /\ LET tr == [tracker[t] EXCEPT !.usage_records = fold(@, u)]
       IN  /\ tracker' = [tracker EXCEPT ![t] = tr]
           /\ file' = write_to_file(file, tr, clock, outcome)
    /\ usage' = calculate_cost(u)
    /\ last' = Call("add_usage", t, IF outcome = "ok" THEN "none" ELSE "OSError", None)
    /\ added' = [added EXCEPT ![t] = Append(@, [usage |-> usage', raised |-> last'.raised])]
    /\ UNCHANGED <<clock, loaded>>

\* tracker.get_session_stats() (lines 112-141)
GetSessionStats(t) ==
    /\ tracker[t].state = "active"
    /\ last' = Call("get_session_stats", t, "none", get_session_stats(tracker[t], clock))
    /\ UNCHANGED <<clock, tracker, file, usage, loaded, added>>

\* time passes: a second and one tick more
Tick ==
    /\ clock + TicksPerSec + 1 <= MaxTick * (TicksPerSec + 1)
    /\ clock' = clock + TicksPerSec + 1
    /\ UNCHANGED <<tracker, file, last, usage, loaded, added>>

Next ==
    \/ \E t \in Trackers, ok \in BOOLEAN : Construct(t, ok)
    \/ \E t \in Trackers, u \in MainUsages, w \in WriteOutcomes : AddUsage(t, u, w)
    \/ \E t \in Trackers : GetSessionStats(t)
    \/ Tick

Spec == Init /\ [][Next]_vars

\* --------------------------------------------- calculate_cost on its own

CostModels == DOMAIN PRICING \cup UnknownModels

CostUsages ==
    {TokenUsage(ts, m, i, o, c, t, cost) :
        ts \in Timestamps, m \in CostModels, i \in {-1, 0, 1, 1000000, 2000000},
        o \in {0, 1000000}, c \in {-1, 0, 1, 1000000}, t \in {0, 1000000},
        cost \in {0, 99}}

InitCost ==
    /\ clock = 0
    /\ tracker = [t \in Trackers |-> Uninitialized]
    /\ file = AbsentFile
    /\ last = Call("none", "A", "none", None)
    /\ usage \in CostUsages
    /\ loaded = [t \in Trackers |-> <<>>]
    /\ added = [t \in Trackers |-> <<>>]

\* usage.calculate_cost() (lines 47-62)
CalculateCost ==
    /\ usage' = calculate_cost(usage)
    /\ last' = Call("calculate_cost", "A", "none", cost_of(usage))
    /\ UNCHANGED <<clock, tracker, file, loaded, added>>

NextCost == CalculateCost

SpecCost == InitCost /\ [][NextCost]_vars

\* ------------------------------------------------- one tracker, long clock

\* 599.5 s, 3600.5 s and 3725 s at two ticks to the second
ClockSteps == {1199, 7201, 7450}

\* time passes, d ticks at once
Advance(d) ==
    /\ clock + d <= MaxClock
    /\ clock' = clock + d
    /\ UNCHANGED <<tracker, file, last, usage, loaded, added>>

NextClock ==
    \/ \E ok \in BOOLEAN : Construct("A", ok)
    \/ \E d \in ClockSteps : Advance(d)
    \/ GetSessionStats("A")

SpecClock == Init /\ [][NextClock]_vars

\* ------------------------------------- callers that change a record later

\* the caller assigns v to input_tokens of the i-th record it passed to
\* add_usage of tracker t: line 94 appends the caller's object itself, so
\* usage_records[i] is that object
CallerMutate(t, i, v) ==
    /\ tracker[t].state = "active"
    /\ i > Len(loaded[t])
    /\ i <= Len(tracker[t].usage_records)
    /\ tracker[t].usage_records[i].input_tokens # v
    /\ tracker' = [tracker EXCEPT ![t].usage_records[i].input_tokens = v]
    /\ last' = Call("caller_mutate", t, "none", None)
    /\ UNCHANGED <<clock, file, usage, loaded, added>>

NextMut ==
    \/ \E t \in Trackers : Construct(t, TRUE)
    \/ \E t \in Trackers, u \in MainUsages, w \in WriteOutcomes : AddUsage(t, u, w)
    \/ \E t \in Trackers : GetSessionStats(t)
    \/ \E t \in Trackers, i \in 1..MaxAdds : CallerMutate(t, i, 0)

SpecMut == Init /\ [][NextMut]_vars

\* ------------------------------------------------------------- properties

\* left-to-right total of one field over a sequence of usage records
RECURSIVE SumOver(_, _)
SumOver(records, field) ==
    IF Len(records) = 0 THEN 0
    ELSE Head(records)[field] + SumOver(Tail(records), field)

\* the records of tracker t's add_usage calls, as the calls left them
AddedUsages(t) == [i \in 1..Len(added[t]) |-> added[t][i].usage]

TotalFields ==
    [total_input_tokens |-> "input_tokens", total_output_tokens |-> "output_tokens",
     total_cached_input_tokens |-> "cached_input_tokens",
     total_thinking_tokens |-> "thinking_tokens", total_cost_usd |-> "cost_usd"]

\* a stats object without its clock-derived fields
AggregateOf(stats) ==
    [k \in DOMAIN TotalFields \cup {"total_requests", "session_start_time"} |-> stats[k]]

Constructed(t) == last.op = "init" /\ last.t = t /\ last.raised = "none"

Wrote(t) == last.op = "add_usage" /\ last.t = t /\ last.raised = "none"

C3_FileMatchesStats ==
    \A t \in Trackers :
        Wrote(t) =>
            /\ file.kind = "object"
            /\ file.session_id = tracker[t].session_id
            /\ file.last_updated <= clock
            /\ AggregateOf(file.session_stats)
                  = AggregateOf(get_session_stats(tracker[t], clock))
            /\ file.session_stats.total_requests = Len(loaded[t]) + Len(added[t])
            /\ file = snapshot(tracker[t], file.last_updated)

\* the second call's write, read back after the clock has moved on
C3_Witness ==
    /\ Wrote("A")
    /\ Len(added["A"]) = 2
    /\ file.session_stats.total_requests = 2
    /\ clock > file.last_updated
    /\ get_session_stats(tracker["A"], clock).current_time
          # file.session_stats.current_time

\* what C4 says of every state: the tracker keeps the record of every call,
\* failed or not; a failed call shows as OSError with its record folded; a
\* successful write holds the records of the failed calls too
C4_Kept ==
    \A t \in Trackers :
        /\ tracker[t].state = "active" =>
              tracker[t].usage_records = loaded[t] \o AddedUsages(t)
        /\ (last.op = "add_usage" /\ last.t = t /\ last.raised # "none") =>
              /\ last.raised = "OSError"
              /\ added[t][Len(added[t])].raised = "OSError"
              /\ tracker[t].usage_records[Len(tracker[t].usage_records)] = usage
        /\ Wrote(t) =>
              /\ file.records = loaded[t] \o AddedUsages(t)
              /\ file.session_stats.total_cost_usd
                    = SumOver(loaded[t], "cost_usd") + SumOver(AddedUsages(t), "cost_usd")

\* what C4 says of every failed call: one more record in memory, and the file
\* left as it was or truncated, never rewritten by a second attempt
C4_NoRetry ==
    \A t \in Trackers :
        (Len(added'[t]) = Len(added[t]) + 1 /\ last'.raised # "none") =>
            /\ Len(tracker'[t].usage_records) = Len(tracker[t].usage_records) + 1
            /\ file' \in {file, CorruptFile}

\* C4: a failed write is raised to the caller of add_usage and not retried (the
\* file is left as it was, or truncated), the tracker keeps the record of every
\* call, failed or not, and a later successful call writes a snapshot holding
\* the failed calls' records too.
C4_FailedWriteKeepsRecord == [](C4_Kept) /\ [][C4_NoRetry]_vars

\* a successful call after a failed one on the same tracker
C4_Witness ==
    /\ Wrote("A")
    /\ Len(added["A"]) = 2
    /\ added["A"][1].raised = "OSError"
    /\ file.session_stats.total_requests = 2

\* C5: for every model id of the pricing table calculate_cost stores in
\* cost_usd, and returns, input_tokens * input rate + output_tokens * output
\* rate, plus cached_input_tokens * cached-input rate only when the schedule
\* has that rate and cached_input_tokens > 0 (rates per 1M tokens); neither
\* thinking_tokens nor the cost_usd the caller supplied enters.
C5_CostFormula ==
    (/\ last.op = "calculate_cost"
     /\ usage.model \in DOMAIN PRICING
     /\ \A f \in {"input_tokens", "output_tokens", "cached_input_tokens",
                   "thinking_tokens"} : usage[f] >= 0) =>
        LET schedule == PRICING[usage.model]
            linear == usage.input_tokens * schedule.input
                      + usage.output_tokens * schedule.output
            cached == IF "cached_input" \in DOMAIN schedule
                         /\ usage.cached_input_tokens > 0
                      THEN usage.cached_input_tokens * schedule.cached_input
                      ELSE 0
        IN  /\ usage.cost_usd = linear + cached
            /\ last.ret = usage.cost_usd

\* a model without a cached-input rate, with cached and thinking tokens:
\* 1M * 3.0 + 1M * 15.0 and nothing more
C5_Witness ==
    /\ last.op = "calculate_cost"
    /\ usage.model = "anthropic.claude-3-5-sonnet-20240620:0"
    /\ usage.input_tokens = 1000000
    /\ usage.output_tokens = 1000000
    /\ usage.cached_input_tokens = 1000000
    /\ usage.thinking_tokens = 1000000
    /\ usage.cost_usd = 180000000

\* C6: add_usage of a record whose model id is no key of the pricing table
\* costs it at input 5.0, output 25.0, cached input 0.5, counts it in the
\* aggregate like any other record, and raises nothing but a failed write.
C6_UnknownModelDefault ==
    (last.op = "add_usage" /\ usage.model \notin DOMAIN PRICING) =>
        LET t == last.t
            records == tracker[t].usage_records
        IN  /\ usage.cost_usd
                  = usage.input_tokens * 50 + usage.output_tokens * 250
                    + (IF usage.cached_input_tokens > 0
                       THEN usage.cached_input_tokens * 5 ELSE 0)
            /\ records[Len(records)] = usage
            /\ get_session_stats(tracker[t], clock).total_requests
                  = Len(loaded[t]) + Len(added[t])
            /\ last.raised \in {"none", "OSError"}
            /\ last.raised = "none" => file.records[Len(file.records)] = usage

C6_Witness ==
    /\ last.op = "add_usage"
    /\ last.raised = "none"
    /\ usage.model = "unknown-model-xyz"
    /\ usage.cost_usd = 105000000
    /\ get_session_stats(tracker[last.t], clock).total_requests = 2

\* C7: from one state of an active tracker to the next no total decreases,
\* total_requests grows by exactly 1 with an add_usage call on it and not
\* otherwise, and session_id and session_start_time stay as constructed.
C7_Monotone ==
    [][\A t \in Trackers :
          (/\ tracker[t].state = "active"
           /\ <<tracker[t], added[t], clock>>' # <<tracker[t], added[t], clock>>) =>
              \A before \in {get_session_stats(tracker[t], clock)} :
              \A after \in {get_session_stats(tracker'[t], clock')} :
                  /\ \A k \in DOMAIN TotalFields : after[k] >= before[k]
                  /\ after.total_requests
                        = before.total_requests
                          + (IF Len(added'[t]) > Len(added[t]) THEN 1 ELSE 0)
                  /\ tracker'[t].session_id = tracker[t].session_id
                  /\ tracker'[t].session_start_time = tracker[t].session_start_time
                  /\ after.session_start_time = before.session_start_time
                  /\ after.current_time >= before.current_time]_vars

\* a tracker constructed after the first second, with two calls behind it
C7_Witness ==
    /\ tracker["A"].state = "active"
    /\ tracker["A"].session_id = 1
    /\ Len(added["A"]) = 2
    /\ get_session_stats(tracker["A"], clock).total_requests = 2

DigitValue(c) == CHOOSE n \in 0..9 : DigitChars[n + 1] = c

\* the number two characters of text spell, from position i
TwoDigits(text, i) == 10 * DigitValue(text[i]) + DigitValue(text[i + 1])

\* what C10 says of a result: HH:MM:SS of the whole seconds, cut not rounded
C10_Format ==
    last.op = "get_session_stats" =>
        LET d == last.ret.session_duration_seconds
            whole == d \div TicksPerSec
            text == last.ret.session_duration
        IN  d >= 0 =>
              /\ whole * TicksPerSec <= d
              /\ d < (whole + 1) * TicksPerSec
              /\ Len(text) = 8
              /\ text[3] = ":"
              /\ text[6] = ":"
              /\ \A i \in {1, 2, 4, 5, 7, 8} : \E n \in 0..9 : DigitChars[n + 1] = text[i]
              /\ TwoDigits(text, 1) = whole \div 3600
              /\ TwoDigits(text, 4) = (whole % 3600) \div 60
              /\ TwoDigits(text, 7) = whole % 60

\* what C10 says of a call: nothing of the tracker, the file or the clock moves
C10_PureRead ==
    (last'.op = "get_session_stats" /\ last' # last) =>
        UNCHANGED <<tracker, file, clock, usage>>

\* C10: for every session duration d >= 0 get_session_stats gives
\* session_duration as zero-padded HH:MM:SS of floor(d) seconds, the
\* sub-second part dropped, and the call changes no tracker state.
C10_DurationFormat == [](C10_Format) /\ [][C10_PureRead]_vars

\* 3725 seconds give 01:02:05
C10_Witness ==
    /\ last.op = "get_session_stats"
    /\ last.ret.session_duration_seconds = 3725 * TicksPerSec
    /\ last.ret.session_duration = <<"0", "1", ":", "0", "2", ":", "0", "5">>

====
